---- MODULE Spec2Model ----
(***************************************************************************)
(* Upload-and-workflow orchestration of DifyFileUploadDemo: the React      *)
(* state of the component (uploadResults, workflowResults, error,          *)
(* executingWorkflows, workflowApiKey), the fetch calls of executeWorkflow *)
(* that are awaiting their response, and the wall clock read by            *)
(* Date.now().  JavaScript runs every handler to its next await, so each   *)
(* action is one synchronous stretch of a handler.  The two child          *)
(* components are modelled beside it: DifyFileUpload (uploading flag and   *)
(* the upload calls awaiting their response) and DifyResultDisplay (the    *)
(* judgement list it is given and the statistics it derives on render).    *)
(* Spec runs the parent with upload completions arriving as calls of       *)
(* handleUploadSuccess / handleUploadError; SpecUpload runs DifyFileUpload *)
(* with those callbacks; SpecDisplay renders DifyResultDisplay.            *)
(* SpecGated runs the parent with executeWorkflow reached only through the *)
(* buttons of the action cell.  SpecCommit runs it with the state updates  *)
(* that follow the awaited fetch committed one at a time, as React does    *)
(* for updates outside its event handlers when it does not batch them, so  *)
(* that the renders between setError, setWorkflowResults and the update of *)
(* finally are states of the model.                                        *)
(***************************************************************************)
EXTENDS Integers, Sequences, FiniteSets, TLC

\* ---------------------------------------------------------------- bounds
MaxUploads == 2
MaxCalls == 2
MaxItems == 3

\* ------------------------------------------------------------- constants
MsPerSec == 1000

\* Values of Date.now() during the session: the last millisecond of one
\* second and the first of the next, so that the clock can stand still
\* between two reads or change Math.floor(Date.now() / 1000).
ClockValues == {MsPerSec - 1, MsPerSec}

FileIds == {"f1", "f2"}

\* Values typed into the "Dify Workflow API Key" field, as character lists.
ApiKeys == {<<" ">>, <<"k">>}

NULL == "null"
\* The result of a find that matched nothing.
UNDEFINED == [undefined |-> TRUE]

MsgNoApiKey == "please enter the workflow API key"
MsgFileNotFound == "file not found"
MsgDefaultWorkflowError == "workflow execution error"
UploadErrorMessages == {"upload failed"}

\* Status symbols of the payload returned by the workflow service.
DifyStatuses == {"succeeded", "failed", "running", "stopped"}

\* Run ids the service may return; "" stands for a missing workflow_run_id.
RunIds == {"", "r1"}

\* Parsed bodies of 2xx responses: a succeeded run with and without a run
\* id, and a run that the service reports as failed.
Payloads ==
    {p \in [workflow_run_id : RunIds, status : DifyStatuses] :
        \/ p.status = "succeeded"
        \/ p.status = "failed" /\ p.workflow_run_id # ""}

\* What the awaited fetch / response.text() / response.json() can yield:
\* a rejected fetch, a non-2xx response, a 2xx response whose body does not
\* parse, and a 2xx response with a parsed body.
Outcomes ==
    {[kind |-> "network"], [kind |-> "http"], [kind |-> "badjson"]}
    \cup {[kind |-> "ok", body |-> p] : p \in Payloads}

\* ------------------------------------------------ DifyFileUpload inputs
\* supportedFormats, as character lists.
supportedFormats ==
    {<<"p", "n", "g">>, <<"j", "p", "g">>, <<"j", "p", "e", "g">>,
     <<"w", "e", "b", "p">>, <<"g", "i", "f">>, <<"p", "d", "f">>}

\* Names of the files the user selects or drops: a.pdf, a.PDF, a.exe,
\* a.b.gif, "a." (nothing after the dot), "a" and "pdf" (no dot at all).
FileNames ==
    {<<"a", ".", "p", "d", "f">>, <<"a", ".", "P", "D", "F">>,
     <<"a", ".", "e", "x", "e">>, <<"a", ".", "b", ".", "g", "i", "f">>,
     <<"a", ".">>, <<"a">>, <<"p", "d", "f">>}

Files == {[name |-> n] : n \in FileNames}

MsgUnsupportedFormat == "unsupported file format; supported: png, jpg, jpeg, webp, gif, pdf"
MsgUploadFailed == "upload failed"
MsgUploadParseFailed == "failed to parse the response"
MsgDefaultUploadError == "upload error"

\* "" stands for an id that is missing from the upload response.
NoId == ""

\* Parsed bodies of 2xx upload responses (DifyUploadResponse): the fields
\* the registry keeps that can disqualify an upload.
UploadResponses == [id : {"f1", NoId}, size : {0, 1024}, extension : {"pdf", "exe"}]

\* What the awaited upload fetch / response.text() / JSON.parse can yield.
UploadOutcomes ==
    {[kind |-> "network"], [kind |-> "http"], [kind |-> "badjson"]}
    \cup {[kind |-> "ok", body |-> r] : r \in UploadResponses}

\* --------------------------------------------- DifyResultDisplay inputs
\* Values of assessment.compliance_status: "O", "TRI" and "X" stand for the
\* three known symbols (circle, triangle, cross), "?" for an unknown symbol,
\* and two unknown values that name properties of Object.prototype.
ComplianceSymbols == {"O", "TRI", "X"}
ObjectPrototypeKeys == {"constructor", "__proto__"}
StatusValues == ComplianceSymbols \cup {"?"} \cup ObjectPrototypeKeys

JudgementItems == {[assessment |-> [compliance_status |-> v]] : v \in StatusValues}

RECURSIVE SeqsUpTo(_, _)
SeqsUpTo(S, n) ==
    IF n = 0 THEN {<<>>}
    ELSE LET shorter == SeqsUpTo(S, n - 1)
         IN shorter \cup {<<x>> \o q : x \in S, q \in {r \in shorter : Len(r) = n - 1}}

\* result.outputs.judgement of the payloads handed to DifyResultDisplay.
JudgementLists == SeqsUpTo(JudgementItems, MaxItems)

VARIABLES workflowApiKey, uploadResults, workflowResults, error,
          executingWorkflows, inflight, fetchCount, now,
          uploading, uploadInflight,
          judgement, rendered, complianceStats, percentages,
          settling

\* State of DifyFileUploadDemo and of its workflow calls.
demoVars == <<workflowApiKey, uploadResults, workflowResults, error,
              executingWorkflows, inflight, fetchCount, now>>

\* State of DifyFileUpload and of its upload calls.
uploadVars == <<uploading, uploadInflight>>

\* Props and derived values of DifyResultDisplay.
displayVars == <<judgement, rendered, complianceStats, percentages>>

\* The call of executeWorkflow that is between the settling of its fetch
\* and the end of its finally block, and the block it has reached.
commitVars == <<settling>>

vars == <<demoVars, uploadVars, displayVars, commitVars>>

\* ---------------------------------------------------------------- helpers
IsSpace(c) == c = " "

RECURSIVE TrimStart(_)
TrimStart(s) ==
    IF s # <<>> /\ IsSpace(Head(s)) THEN TrimStart(Tail(s)) ELSE s

RECURSIVE TrimEnd(_)
TrimEnd(s) ==
    IF s # <<>> /\ IsSpace(s[Len(s)])
    THEN TrimEnd(SubSeq(s, 1, Len(s) - 1))
    ELSE s

Trim(s) == TrimEnd(TrimStart(s))

\* !workflowApiKey.trim() is false
HasCredentialNoTrim(key) == key # <<>>
HasCredential(key) == Trim(key) # <<>>

\* Array.prototype.find: the first element satisfying the test, or undefined.
RECURSIVE FindBy(_, _, _)
FindBy(list, field, value) ==
    IF list = <<>> THEN UNDEFINED
    ELSE IF Head(list)[field] = value THEN Head(list)
    ELSE FindBy(Tail(list), field, value)

FindUploadAny(uploads, fileId) ==
    IF uploads = <<>> THEN UNDEFINED ELSE Head(uploads)
FindUpload(uploads, fileId) == FindBy(uploads, "id", fileId)

\* !uploadResult?.file is false
HasFile(uploadResult) == uploadResult # UNDEFINED /\ uploadResult.file

\* new Set(prev.add(fileId))
AddExecutingNoop(prev, fileId) == prev
AddExecuting(prev, fileId) == prev \cup {fileId}

\* newSet = new Set(prev); newSet.delete(fileId)
DeleteExecutingAll(prev, fileId) == {}
DeleteExecutingNoop(prev, fileId) == prev
DeleteExecuting(prev, fileId) == prev \ {fileId}

\* { ...result, file }
WithFile(result) == [file |-> TRUE] @@ result

\* [uploadResult, ...prev]
PrependUploadAtEnd(uploadResult, prev) == prev \o <<uploadResult>>
PrependUpload(uploadResult, prev) == <<uploadResult>> \o prev

\* [workflowResult, ...prev] and [failedResult, ...prev]
RECURSIVE ReplaceSameFile(_, _)
ReplaceSameFile(x, prev) ==
    IF prev = <<>> THEN <<>>
    ELSE IF Head(prev).file_id = x.file_id THEN <<x>> \o Tail(prev)
    ELSE <<Head(prev)>> \o ReplaceSameFile(x, Tail(prev))
PrependOverwriting(x, prev) ==
    IF FindBy(prev, "file_id", x.file_id) = UNDEFINED
    THEN <<x>> \o prev
    ELSE ReplaceSameFile(x, prev)
PrependResult(x, prev) == <<x>> \o prev

\* Math.floor(Date.now() / 1000)
EpochSeconds(ms) == ms \div MsPerSec

\* result.workflow_run_id || `workflow_${Date.now()}`
WorkflowId(body, ms) ==
    IF body.workflow_run_id # "" THEN <<body.workflow_run_id>>
    ELSE <<"workflow_", ms>>

\* `failed_${Date.now()}`
FailedId(ms) == <<"failed_", ms>>

\* The value thrown into the catch block for each non-success outcome.
Thrown(outcome) ==
    CASE outcome.kind = "network" ->
            [isError |-> TRUE, message |-> "Failed to fetch"]
      [] outcome.kind = "http" ->
            [isError |-> TRUE, message |-> "workflow run failed: 500"]
      [] outcome.kind = "badjson" ->
            [isError |-> TRUE, message |-> "Unexpected token"]

\* error instanceof Error ? error.message : "..."
ErrorMessageOfEmpty(thrown) == ""
ErrorMessageOf(thrown) ==
    IF thrown.isError THEN thrown.message ELSE MsgDefaultWorkflowError

\* The WorkflowResult built on the success path.
CompletedResultRunning(body, fileId, ms) ==
    [id |-> WorkflowId(body, ms), file_id |-> fileId, status |-> "running",
     result |-> body, created_at |-> EpochSeconds(ms)]
CompletedResult(body, fileId, ms) ==
    [id |-> WorkflowId(body, ms), file_id |-> fileId, status |-> "completed",
     result |-> body, created_at |-> EpochSeconds(ms)]

\* The WorkflowResult built in the catch block.
FailedResult(errorMessage, fileId, ms) ==
    [id |-> FailedId(ms), file_id |-> fileId, status |-> "failed",
     error |-> errorMessage, created_at |-> EpochSeconds(ms)]

\* workflowResults.find((result) => result.file_id === fileId)
getWorkflowResultForFileLast(fileId) ==
    LET matches == SelectSeq(workflowResults, LAMBDA r : r.file_id = fileId)
    IN IF matches = <<>> THEN UNDEFINED ELSE matches[Len(matches)]
getWorkflowResultForFile(fileId) == FindBy(workflowResults, "file_id", fileId)

\* The read model of the action cell: spinner flag and latest record.
readModel(fileId) ==
    [pending |-> fileId \in executingWorkflows,
     latest |-> getWorkflowResultForFile(fileId)]

\* ----------------------------------------------------------------- state
InitDemo ==
    /\ workflowApiKey = <<>>
    /\ uploadResults = <<>>
    /\ workflowResults = <<>>
    /\ error = NULL
    /\ executingWorkflows = {}
    /\ inflight = [f \in FileIds |-> 0]
    /\ fetchCount = 0
    /\ now = MsPerSec - 1

InitUpload ==
    /\ uploading = FALSE
    /\ uploadInflight = 0

\* DifyResultDisplay before its first render of the judgement list.
InitDisplay(items) ==
    /\ judgement = items
    /\ rendered = FALSE
    /\ complianceStats = <<>>
    /\ percentages = <<>>

\* No call of executeWorkflow is past its await.
Idle == [at |-> "idle"]

InitCommit == settling = Idle

Init == InitDemo /\ InitUpload /\ InitDisplay(<<>>) /\ InitCommit

\* --------------------------------------------------------------- actions
\* onChange of the workflow API key field.
setWorkflowApiKey(value) ==
    /\ workflowApiKey' = value
    /\ UNCHANGED <<uploadResults, workflowResults, error, executingWorkflows,
                   inflight, fetchCount, now>>

handleUploadSuccessResetting(result) ==
    /\ Len(uploadResults) < MaxUploads
    /\ uploadResults' = PrependUpload(WithFile(result), uploadResults)
    /\ error' = NULL
    /\ executingWorkflows' = {}
    /\ UNCHANGED <<workflowApiKey, workflowResults, inflight, fetchCount, now>>
handleUploadSuccess(result) ==
    /\ Len(uploadResults) < MaxUploads
    /\ uploadResults' = PrependUpload(WithFile(result), uploadResults)
    /\ error' = NULL
    /\ UNCHANGED <<workflowApiKey, workflowResults, executingWorkflows,
                   inflight, fetchCount, now>>

handleUploadError(errorMessage) ==
    /\ error' = errorMessage
    /\ UNCHANGED <<workflowApiKey, uploadResults, workflowResults,
                   executingWorkflows, inflight, fetchCount, now>>

\* onClose of the error Alert.
closeAlert ==
    /\ error # NULL
    /\ error' = NULL
    /\ UNCHANGED <<workflowApiKey, uploadResults, workflowResults,
                   executingWorkflows, inflight, fetchCount, now>>

\* The number of fetch calls issued after one more call.
IssueFetchTwice(n) == n + 2
IssueFetch(n) == n + 1

\* executeWorkflow from its entry to the await of fetch.
executeWorkflow(fileId) ==
    IF ~HasCredential(workflowApiKey)
    THEN /\ error' = MsgNoApiKey
         /\ UNCHANGED <<workflowApiKey, uploadResults, workflowResults,
                        executingWorkflows, inflight, fetchCount, now>>
    ELSE IF ~HasFile(FindUpload(uploadResults, fileId))
    THEN /\ error' = MsgFileNotFound
         /\ UNCHANGED <<workflowApiKey, uploadResults, workflowResults,
                        executingWorkflows, inflight, fetchCount, now>>
    ELSE /\ fetchCount < MaxCalls
         /\ executingWorkflows' = AddExecuting(executingWorkflows, fileId)
         /\ error' = NULL
         /\ inflight' = [inflight EXCEPT ![fileId] = @ + 1]
         /\ fetchCount' = IssueFetch(fetchCount)
         /\ UNCHANGED <<workflowApiKey, uploadResults, workflowResults, now>>

\* executeWorkflow from the settling of its fetch to the end of finally.
executeWorkflowSettle(fileId, outcome) ==
    /\ inflight[fileId] > 0
    /\ inflight' = [inflight EXCEPT ![fileId] = @ - 1]
    /\ IF outcome.kind = "ok"
       THEN /\ workflowResults' =
                  PrependResult(CompletedResult(outcome.body, fileId, now),
                                workflowResults)
            /\ UNCHANGED error
       ELSE /\ error' = ErrorMessageOf(Thrown(outcome))
            /\ workflowResults' =
                  PrependResult(FailedResult(ErrorMessageOf(Thrown(outcome)),
                                       fileId, now),
                                workflowResults)
    /\ executingWorkflows' = DeleteExecuting(executingWorkflows, fileId)
    /\ UNCHANGED <<workflowApiKey, uploadResults, fetchCount, now>>

\* The wall clock advances between handlers.
Tick ==
    /\ \E t \in ClockValues : t > now /\ now' = t
    /\ UNCHANGED <<workflowApiKey, uploadResults, workflowResults, error,
                   executingWorkflows, inflight, fetchCount>>

\* What the action cell of the row of fileId renders: the disabled spinner
\* button, the completed chip, the failed chip with the retry button, or the
\* run button.
ActionCellNoSpinner(fileId) ==
    IF getWorkflowResultForFile(fileId) # UNDEFINED
          /\ getWorkflowResultForFile(fileId).status = "completed"
    THEN "chip"
    ELSE IF getWorkflowResultForFile(fileId) # UNDEFINED
               /\ getWorkflowResultForFile(fileId).status = "failed"
    THEN "retry"
    ELSE "run"
ActionCell(fileId) ==
    IF fileId \in executingWorkflows THEN "spinner"
    ELSE IF getWorkflowResultForFile(fileId) # UNDEFINED
               /\ getWorkflowResultForFile(fileId).status = "completed"
    THEN "chip"
    ELSE IF getWorkflowResultForFile(fileId) # UNDEFINED
               /\ getWorkflowResultForFile(fileId).status = "failed"
    THEN "retry"
    ELSE "run"

\* onClick of the run or retry button in a row of uploadResults.
onClickExecute(fileId) ==
    /\ \E i \in 1..Len(uploadResults) : uploadResults[i].id = fileId
    /\ ActionCell(fileId) \in {"retry", "run"}
    /\ executeWorkflow(fileId)

\* executeWorkflow from the settling of its fetch to the first state update:
\* setWorkflowResults at the end of try, or setError in catch.
executeWorkflowTryClearing(fileId, outcome) ==
    /\ settling = Idle
    /\ inflight[fileId] > 0
    /\ inflight' = [inflight EXCEPT ![fileId] = @ - 1]
    /\ IF outcome.kind = "ok"
       THEN /\ workflowResults' =
                  PrependResult(CompletedResult(outcome.body, fileId, now),
                                workflowResults)
            /\ settling' = [at |-> "finally", file_id |-> fileId]
            /\ UNCHANGED error
       ELSE /\ error' = ErrorMessageOf(Thrown(outcome))
            /\ settling' = [at |-> "catch", file_id |-> fileId,
                            message |-> ErrorMessageOf(Thrown(outcome))]
            /\ UNCHANGED workflowResults
    /\ executingWorkflows' = DeleteExecuting(executingWorkflows, fileId)
    /\ UNCHANGED <<workflowApiKey, uploadResults, fetchCount, now>>
executeWorkflowTry(fileId, outcome) ==
    /\ settling = Idle
    /\ inflight[fileId] > 0
    /\ inflight' = [inflight EXCEPT ![fileId] = @ - 1]
    /\ IF outcome.kind = "ok"
       THEN /\ workflowResults' =
                  PrependResult(CompletedResult(outcome.body, fileId, now),
                                workflowResults)
            /\ settling' = [at |-> "finally", file_id |-> fileId]
            /\ UNCHANGED error
       ELSE /\ error' = ErrorMessageOf(Thrown(outcome))
            /\ settling' = [at |-> "catch", file_id |-> fileId,
                            message |-> ErrorMessageOf(Thrown(outcome))]
            /\ UNCHANGED workflowResults
    /\ UNCHANGED <<workflowApiKey, uploadResults, executingWorkflows,
                   fetchCount, now>>

\* The rest of the catch block: failedResult and setWorkflowResults.
executeWorkflowCatch ==
    /\ settling.at = "catch"
    /\ workflowResults' =
          PrependResult(FailedResult(settling.message, settling.file_id, now),
                        workflowResults)
    /\ settling' = [at |-> "finally", file_id |-> settling.file_id]
    /\ UNCHANGED <<workflowApiKey, uploadResults, error, executingWorkflows,
                   inflight, fetchCount, now>>

\* The finally block.
executeWorkflowFinally ==
    /\ settling.at = "finally"
    /\ executingWorkflows' = DeleteExecuting(executingWorkflows, settling.file_id)
    /\ settling' = Idle
    /\ UNCHANGED <<workflowApiKey, uploadResults, workflowResults, error,
                   inflight, fetchCount, now>>

\* ------------------------------------------------------- DifyFileUpload
\* String.prototype.toLowerCase on the letters that occur in FileNames.
LowerChar(c) ==
    CASE c = "P" -> "p" [] c = "D" -> "d" [] c = "F" -> "f" [] OTHER -> c

toLowerCase(s) == [i \in 1..Len(s) |-> LowerChar(s[i])]

\* name.split('.').pop(): the characters after the last dot, the whole
\* name when it has no dot.
RECURSIVE SplitPop(_)
SplitPop(s) ==
    IF s = <<>> \/ s[Len(s)] = "." THEN <<>>
    ELSE SplitPop(SubSeq(s, 1, Len(s) - 1)) \o <<s[Len(s)]>>

\* validateFile: the error message, or null for an accepted file.
validateFile(file) ==
    LET extension == toLowerCase(SplitPop(file.name))
    IN IF extension = <<>> \/ extension \notin supportedFormats
       THEN MsgUnsupportedFormat
       ELSE NULL

\* The value thrown into the outer catch block of uploadFile.
UploadThrown(outcome) ==
    CASE outcome.kind = "network" ->
            [isError |-> TRUE, message |-> "Failed to fetch"]
      [] outcome.kind = "http" ->
            [isError |-> TRUE, message |-> MsgUploadFailed]
      [] outcome.kind = "badjson" ->
            [isError |-> TRUE, message |-> MsgUploadParseFailed]

\* error instanceof Error ? error.message : "..."
UploadErrorMessageOf(thrown) ==
    IF thrown.isError THEN thrown.message ELSE MsgDefaultUploadError

\* uploadFile from its entry to the await of fetch.
uploadFile(file) ==
    IF validateFile(file) # NULL
    THEN /\ handleUploadError(validateFile(file))
         /\ UNCHANGED uploadVars
    ELSE /\ Len(uploadResults) + uploadInflight < MaxUploads
         /\ uploading' = TRUE
         /\ uploadInflight' = uploadInflight + 1
         /\ UNCHANGED demoVars

\* onChange of the file input, which is disabled while uploading.
handleFileSelect(file) ==
    /\ ~uploading
    /\ uploadFile(file)

\* onDrop of the drop zone.
handleDrop(file) == uploadFile(file)

\* uploadFile from the settling of its fetch to the end of finally.
uploadFileSettle(outcome) ==
    /\ uploadInflight > 0
    /\ uploadInflight' = uploadInflight - 1
    /\ IF outcome.kind = "ok"
       THEN handleUploadSuccess(outcome.body)
       ELSE handleUploadError(UploadErrorMessageOf(UploadThrown(outcome)))
    /\ uploading' = FALSE

\* ---------------------------------------------------- DifyResultDisplay
\* Values held by the properties of the accumulator object.
Num(n) == [type |-> "number", value |-> n]
ObjectValue == [type |-> "object"]
StringValue == [type |-> "string"]
NaN == [type |-> "NaN"]

\* acc[key]: an own property, a property inherited from Object.prototype,
\* or undefined.
GetProperty(acc, key) ==
    IF key \in DOMAIN acc THEN acc[key]
    ELSE IF key \in ObjectPrototypeKeys THEN ObjectValue
    ELSE UNDEFINED

\* (v || 0) + 1: numeric addition for a number or undefined, string
\* concatenation for an object or a string.
OrZeroPlusOne(v) ==
    IF v = UNDEFINED THEN Num(1)
    ELSE IF v.type = "number" THEN Num((IF v.value = 0 THEN 0 ELSE v.value) + 1)
    ELSE StringValue

\* acc[key] = v: the __proto__ setter ignores a value that is not an object.
SetProperty(acc, key, v) ==
    IF key = "__proto__" THEN acc
    ELSE [k \in DOMAIN acc \cup {key} |-> IF k = key THEN v ELSE acc[k]]

\* One call of the reducer.
CountItem(acc, item) ==
    SetProperty(acc, item.assessment.compliance_status,
                OrZeroPlusOne(GetProperty(acc, item.assessment.compliance_status)))

\* judgement.reduce(reducer, {})
RECURSIVE Reduce(_, _)
Reduce(items, acc) ==
    IF items = <<>> THEN acc
    ELSE Reduce(Tail(items), CountItem(acc, Head(items)))

\* Math.round((count / length) * 100) for a count and a length >= 1.
RoundDown(count, length) == (100 * count) \div length
RoundPercent(count, length) == (200 * count + length) \div (2 * length)

\* The percentage shown beside one entry of complianceStats.
Percentage(count, length) ==
    IF count.type = "number" THEN Num(RoundPercent(count.value, length))
    ELSE NaN

\* Object.entries(complianceStats).map(...): one percentage per entry.
Percentages(stats, length) ==
    [k \in DOMAIN stats |-> Percentage(stats[k], length)]

\* One render of DifyResultDisplay.
DifyResultDisplay ==
    /\ ~rendered
    /\ rendered' = TRUE
    /\ complianceStats' = Reduce(judgement, <<>>)
    /\ percentages' = Percentages(Reduce(judgement, <<>>), Len(judgement))
    /\ UNCHANGED judgement

\* ------------------------------------------------------- specifications
\* The parent component alone: the children keep their initial state, and
\* the updates of one synchronous stretch are committed together.
ChildrenIdle == UNCHANGED <<uploadVars, displayVars, commitVars>>

Next ==
    \/ \E value \in ApiKeys : setWorkflowApiKey(value) /\ ChildrenIdle
    \/ \E f \in FileIds : handleUploadSuccess([id |-> f]) /\ ChildrenIdle
    \/ \E m \in UploadErrorMessages : handleUploadError(m) /\ ChildrenIdle
    \/ closeAlert /\ ChildrenIdle
    \/ \E f \in FileIds : executeWorkflow(f) /\ ChildrenIdle
    \/ \E f \in FileIds, o \in Outcomes :
          executeWorkflowSettle(f, o) /\ ChildrenIdle
    \/ Tick /\ ChildrenIdle

Spec == Init /\ [][Next]_vars

\* Spec with every workflow call that was issued eventually settling.
SpecLive ==
    Spec /\ \A f \in FileIds :
                WF_vars(\E o \in Outcomes : executeWorkflowSettle(f, o) /\ ChildrenIdle)

\* The parent component with executeWorkflow called only by the buttons
\* of the action cell.
NextGated ==
    \/ \E value \in ApiKeys : setWorkflowApiKey(value) /\ ChildrenIdle
    \/ \E f \in FileIds : handleUploadSuccess([id |-> f]) /\ ChildrenIdle
    \/ \E m \in UploadErrorMessages : handleUploadError(m) /\ ChildrenIdle
    \/ closeAlert /\ ChildrenIdle
    \/ \E f \in FileIds : onClickExecute(f) /\ ChildrenIdle
    \/ \E f \in FileIds, o \in Outcomes :
          executeWorkflowSettle(f, o) /\ ChildrenIdle
    \/ Tick /\ ChildrenIdle

SpecGated == Init /\ [][NextGated]_vars

\* The parent component with every state update after the awaited fetch
\* committed on its own.  No handler runs while a call is between its
\* settling and the end of finally; the clock advances at any time.
NoChild == UNCHANGED <<uploadVars, displayVars>>

NextCommit ==
    \/ \E value \in ApiKeys :
          settling = Idle /\ setWorkflowApiKey(value) /\ ChildrenIdle
    \/ \E f \in FileIds :
          settling = Idle /\ handleUploadSuccess([id |-> f]) /\ ChildrenIdle
    \/ \E m \in UploadErrorMessages :
          settling = Idle /\ handleUploadError(m) /\ ChildrenIdle
    \/ settling = Idle /\ closeAlert /\ ChildrenIdle
    \/ \E f \in FileIds :
          settling = Idle /\ executeWorkflow(f) /\ ChildrenIdle
    \/ \E f \in FileIds, o \in Outcomes : executeWorkflowTry(f, o) /\ NoChild
    \/ executeWorkflowCatch /\ NoChild
    \/ executeWorkflowFinally /\ NoChild
    \/ Tick /\ ChildrenIdle

SpecCommit == Init /\ [][NextCommit]_vars

\* DifyFileUpload with the callbacks of the parent.
NextUpload ==
    \/ \E file \in Files :
          handleFileSelect(file) /\ UNCHANGED <<displayVars, commitVars>>
    \/ \E file \in Files :
          handleDrop(file) /\ UNCHANGED <<displayVars, commitVars>>
    \/ \E o \in UploadOutcomes :
          /\ uploadFileSettle(o)
          /\ UNCHANGED <<displayVars, commitVars>>
    \/ closeAlert /\ UNCHANGED <<uploadVars, displayVars, commitVars>>

SpecUpload == Init /\ [][NextUpload]_vars

\* DifyResultDisplay rendering one judgement list.
InitDisplaySpec ==
    /\ InitDemo /\ InitUpload /\ InitCommit
    /\ \E items \in JudgementLists : InitDisplay(items)

NextDisplay == DifyResultDisplay /\ UNCHANGED <<demoVars, uploadVars, commitVars>>

SpecDisplay == InitDisplaySpec /\ [][NextDisplay]_vars

\* ------------------------------------------------------ claim vocabulary
\* fileId is the id of some entry of the FileRegistry.
Registered(fileId) ==
    \E i \in 1..Len(uploadResults) : uploadResults[i].id = fileId

\* The configured workflow credential is empty once blanks are removed.
EmptyCredential == Trim(workflowApiKey) = <<>>

\* The ExecutionRecords of one file, in history order.
RecordsOf(list, fileId) == SelectSeq(list, LAMBDA r : r.file_id = fileId)

\* This step appends exactly one record and leaves the earlier ones alone.
AppendsOne ==
    /\ Len(workflowResults') = Len(workflowResults) + 1
    /\ SubSeq(workflowResults', 2, Len(workflowResults')) = workflowResults

\* Every variable except the error slot keeps its value.
OnlyErrorChanges ==
    UNCHANGED <<workflowApiKey, uploadResults, workflowResults,
                executingWorkflows, inflight, fetchCount, now>>

FailureOutcomes == {o \in Outcomes : o.kind # "ok"}
SuccessOutcomes ==
    {o \in Outcomes : o.kind = "ok" /\ o.body.status = "succeeded"}

\* ----------------------------------------------------------------- claims
\* C1: for every fileId at most one workflow execution (fetch of
\* executeWorkflow) is in flight at any instant; a second trigger for a
\* fileId whose first call has not resolved issues no further call.
C1_MutualExclusion == \A f \in FileIds : inflight[f] <= 1

\* C2: for distinct files a and b, a trigger on a that passes validation is
\* accepted whether or not b is pending, and beginning, succeeding or
\* failing an execution of a changes neither b's pending flag nor any
\* record whose file_id is b.
C2_Isolation ==
    [][\A a \in FileIds : \A b \in FileIds \ {a} :
          /\ (executeWorkflow(a) \/ \E o \in Outcomes : executeWorkflowSettle(a, o))
                => /\ (b \in executingWorkflows') = (b \in executingWorkflows)
                   /\ RecordsOf(workflowResults', b) = RecordsOf(workflowResults, b)
                   /\ inflight'[b] = inflight[b]
          /\ (executeWorkflow(a) /\ ~EmptyCredential /\ Registered(a))
                => /\ a \in executingWorkflows'
                   /\ inflight'[a] = inflight[a] + 1
      ]_vars

\* a is being executed (accepted) while b is pending with its call unresolved.
C2_Witness ==
    \E a \in FileIds : \E b \in FileIds \ {a} :
        /\ b \in executingWorkflows /\ inflight[b] = 1
        /\ a \in executingWorkflows /\ inflight[a] = 1

\* C3: for a registered fileId that is not pending and whose latest record
\* is completed or failed, executeWorkflow with a configured credential is
\* accepted and makes the fileId pending again, and every resolution of an
\* execution adds a new record for that fileId in front of the earlier ones.
C3_ReExecution ==
    [][\A f \in FileIds :
          /\ ( /\ executeWorkflow(f)
               /\ ~EmptyCredential /\ Registered(f)
               /\ f \notin executingWorkflows
               /\ getWorkflowResultForFile(f) # UNDEFINED
               /\ getWorkflowResultForFile(f).status \in {"completed", "failed"} )
                => /\ f \in executingWorkflows'
                   /\ inflight'[f] = inflight[f] + 1
                   /\ error' = NULL
                   /\ workflowResults' = workflowResults
          /\ (\E o \in Outcomes : executeWorkflowSettle(f, o))
                => /\ AppendsOne
                   /\ Head(workflowResults').file_id = f
      ]_vars

\* A file with a terminal record has been triggered again and is pending.
C3_Witness ==
    \E f \in FileIds :
        /\ f \in executingWorkflows /\ inflight[f] = 1
        /\ fetchCount = 2
        /\ getWorkflowResultForFile(f) # UNDEFINED

\* C4: in every step workflowResults either stays the same or gains exactly
\* one record at the front; no existing record is removed, reordered or
\* changed, also on re-execution of the same fileId.
C4_AppendOnlyHistory ==
    [][workflowResults' = workflowResults \/ AppendsOne]_vars

\* The history holds two records of the same file.
C4_Witness ==
    \E f \in FileIds : Len(RecordsOf(workflowResults, f)) >= 2

\* C5: when the call of an execution of fileId returns a definitive success
\* exactly one record with status completed, that fileId and the returned
\* payload is appended and fileId is no longer pending: readModel reports
\* pending = false and latest.status = completed.
C5_SuccessTransition ==
    [][\A f \in FileIds : \A o \in SuccessOutcomes :
          executeWorkflowSettle(f, o)
             => /\ AppendsOne
                /\ Head(workflowResults').status = "completed"
                /\ Head(workflowResults').file_id = f
                /\ Head(workflowResults').result = o.body
                /\ readModel(f)'.pending = FALSE
                /\ readModel(f)'.latest.status = "completed"
      ]_vars

\* Some file is idle with a completed latest record of a succeeded run.
C5_Witness ==
    \E f \in FileIds :
        /\ ~readModel(f).pending
        /\ readModel(f).latest # UNDEFINED
        /\ readModel(f).latest.status = "completed"
        /\ readModel(f).latest.result.status = "succeeded"

\* C6: every non-success outcome of the call (rejected fetch, non-2xx
\* response, unparsable body) appends exactly one record with status failed
\* and a non-empty error for that fileId, sets the error slot to that
\* message and clears the pending flag.
C6_FailureRouting ==
    [][\A f \in FileIds : \A o \in FailureOutcomes :
          executeWorkflowSettle(f, o)
             => /\ AppendsOne
                /\ Head(workflowResults').status = "failed"
                /\ Head(workflowResults').file_id = f
                /\ Head(workflowResults').error # ""
                /\ error' = Head(workflowResults').error
                /\ readModel(f)'.pending = FALSE
                /\ readModel(f)'.latest.status = "failed"
      ]_vars

\* Some file is idle with a failed latest record whose message is shown.
C6_Witness ==
    \E f \in FileIds :
        /\ ~readModel(f).pending
        /\ readModel(f).latest # UNDEFINED
        /\ readModel(f).latest.status = "failed"
        /\ error = readModel(f).latest.error

\* C7: a record carrying a payload whose status symbol is not succeeded is
\* not recorded as completed.
C7_NonSuccessNotCompleted ==
    \A i \in 1..Len(workflowResults) :
        ("result" \in DOMAIN workflowResults[i]
            /\ workflowResults[i].result.status # "succeeded")
        => workflowResults[i].status # "completed"

\* C8: executeWorkflow on a fileId that is not in the registry changes only
\* the error slot, which then holds a validation message: no call is issued,
\* no record is created, pending set and registry are unchanged.
C8_UnknownFile ==
    [][\A f \in FileIds :
          (executeWorkflow(f) /\ ~Registered(f))
             => /\ OnlyErrorChanges
                /\ error' \in {MsgNoApiKey, MsgFileNotFound}
      ]_vars

\* The unknown-file message is shown and nothing was ever executed for
\* some file that is still not registered.
C8_Witness ==
    /\ error = MsgFileNotFound
    /\ \E f \in FileIds : ~Registered(f)

\* C9: executeWorkflow with an empty credential changes only the error
\* slot, which then holds the missing-key message: no call is issued, the
\* fileId does not become pending and no record is created.
C9_EmptyCredential ==
    [][\A f \in FileIds :
          (executeWorkflow(f) /\ EmptyCredential)
             => /\ OnlyErrorChanges
                /\ error' = MsgNoApiKey
      ]_vars

\* The missing-key message is shown for a blank credential and a
\* registered file.
C9_Witness ==
    /\ error = MsgNoApiKey
    /\ workflowApiKey = <<" ">>
    /\ uploadResults # <<>>

\* C10: a step issues exactly one fetch if it is an executeWorkflow call
\* that passes validation and none otherwise (no retry when a call fails),
\* so the number of calls equals the number of validated triggers.
C10_OneCallPerValidTrigger ==
    [][fetchCount' = fetchCount +
          (IF \E f \in FileIds :
                 executeWorkflow(f) /\ ~EmptyCredential /\ Registered(f)
           THEN 1 ELSE 0)
      ]_vars

\* One call was issued, it failed, and no second call was made.
C10_Witness ==
    /\ fetchCount = 1
    /\ Len(workflowResults) = 1
    /\ workflowResults[1].status = "failed"
    /\ \A f \in FileIds : inflight[f] = 0

\* The record that a settling call of fileId builds at the current clock.
NewRecord(fileId, outcome) ==
    IF outcome.kind = "ok"
    THEN CompletedResult(outcome.body, fileId, now)
    ELSE FailedResult(ErrorMessageOf(Thrown(outcome)), fileId, now)

\* C11: getWorkflowResultForFile(fileId) is undefined while the history has
\* no record of fileId; when a call of fileId settles it is the record just
\* appended, and steps that add no record of fileId leave it unchanged.
C11_LatestRecord ==
    [][\A f \in FileIds :
          /\ RecordsOf(workflowResults', f) = <<>>
                => getWorkflowResultForFile(f)' = UNDEFINED
          /\ \A o \in Outcomes :
                executeWorkflowSettle(f, o)
                   => getWorkflowResultForFile(f)' = NewRecord(f, o)
          /\ RecordsOf(workflowResults', f) = RecordsOf(workflowResults, f)
                => getWorkflowResultForFile(f)' = getWorkflowResultForFile(f)
      ]_vars

\* A file has two different records and the lookup returns the newer one.
C11_Witness ==
    \E f \in FileIds :
        /\ Len(RecordsOf(workflowResults, f)) = 2
        /\ workflowResults[1] # workflowResults[2]
        /\ getWorkflowResultForFile(f) = workflowResults[1]

\* C12: the pending flag of a fileId is cleared only by the settling of one
\* of its calls, which appends exactly one completed or failed record of
\* that fileId (there is no cancel), and when every issued call eventually
\* settles a pending fileId eventually stops being pending.
C12_RunToTerminal ==
    /\ [][\A f \in FileIds :
             /\ (f \in executingWorkflows /\ f \notin executingWorkflows')
                   => \E o \in Outcomes : executeWorkflowSettle(f, o)
             /\ (\E o \in Outcomes : executeWorkflowSettle(f, o))
                   => /\ AppendsOne
                      /\ Head(workflowResults').file_id = f
                      /\ Head(workflowResults').status \in {"completed", "failed"}
         ]_vars
    /\ \A f \in FileIds :
          (f \in executingWorkflows) ~> (f \notin executingWorkflows)

\* Calls were issued, all of them have settled and nothing is pending.
C12_Witness ==
    /\ fetchCount > 0
    /\ fetchCount = Len(workflowResults)
    /\ executingWorkflows = {}

\* The number of judgement items whose status is the value v.
ItemsWith(v) ==
    Cardinality({i \in 1..Len(judgement) :
                    judgement[i].assessment.compliance_status = v})

\* C13: after a render complianceStats counts every judgement item exactly
\* once under its literal status value, known or unknown: a value with n > 0
\* items has the count n, a value with no item has no entry, so the counts
\* sum to the number of items.
C13_Completeness ==
    rendered =>
        \A v \in StatusValues :
            IF ItemsWith(v) = 0
            THEN v \notin DOMAIN complianceStats
            ELSE /\ v \in DOMAIN complianceStats
                 /\ complianceStats[v] = Num(ItemsWith(v))

C15_UniqueIds ==
    \A i \in 1..Len(uploadResults) : \A j \in 1..Len(uploadResults) :
        i # j => uploadResults[i].id # uploadResults[j].id

\* This step adds exactly one registry entry in front of the earlier ones.
RegistersOne ==
    /\ Len(uploadResults') = Len(uploadResults) + 1
    /\ SubSeq(uploadResults', 2, Len(uploadResults')) = uploadResults

\* C16: every step leaves uploadResults unchanged or adds exactly one entry
\* at its front, and every upload completion adds the entry of its file at
\* the front; no entry is removed, reordered or changed.
C16_RegistryAppendOnly ==
    [][/\ uploadResults' = uploadResults \/ RegistersOne
       /\ \A f \in FileIds :
             handleUploadSuccess([id |-> f])
                => RegistersOne /\ Head(uploadResults').id = f
      ]_vars

\* Two different files are registered, the newer first, and an execution
\* of the older one has left a record.
C16_Witness ==
    /\ Len(uploadResults) = 2
    /\ uploadResults[1].id # uploadResults[2].id
    /\ getWorkflowResultForFile(uploadResults[2].id) # UNDEFINED

\* C17: handleUploadSuccess registers the file with its File object, clears
\* the error slot and leaves the pending set, the in-flight calls and the
\* history as they were.
C17_UploadLeavesTracker ==
    [][\A f \in FileIds :
          handleUploadSuccess([id |-> f])
             => /\ uploadResults' # <<>>
                /\ Head(uploadResults') = [id |-> f, file |-> TRUE]
                /\ error' = NULL
                /\ UNCHANGED <<executingWorkflows, workflowResults, inflight>>
      ]_vars

\* A second file is registered while the first one is being executed.
C17_Witness ==
    \E f \in FileIds :
        /\ f \in executingWorkflows /\ inflight[f] > 0
        /\ Len(uploadResults) = 2
        /\ uploadResults[1].id # f
        /\ error = NULL

\* C18: the error slot is empty after every action that completes
\* successfully: an upload success and the success of a workflow call.
C18_ErrorClearedOnSuccess ==
    [][\A f \in FileIds :
          /\ handleUploadSuccess([id |-> f]) => error' = NULL
          /\ \A o \in Outcomes :
                (o.kind = "ok" /\ executeWorkflowSettle(f, o)) => error' = NULL
      ]_vars

\* The name has a dot and the text after its last dot, in lower case, is
\* one of the supported formats.
HasSupportedExtension(name) ==
    \E i \in 1..Len(name) :
        /\ name[i] = "."
        /\ \A j \in (i + 1)..Len(name) : name[j] # "."
        /\ toLowerCase(SubSeq(name, i + 1, Len(name))) \in supportedFormats

\* C19: uploadFile on a file whose extension is not in the allow-list, or
\* whose name has no extension, reports the unsupported-format message,
\* starts no upload call and registers nothing.
C19_UploadValidation ==
    [][\A file \in Files :
          (uploadFile(file) /\ ~HasSupportedExtension(file.name))
             => /\ error' = MsgUnsupportedFormat
                /\ UNCHANGED <<uploading, uploadInflight, uploadResults>>
      ]_vars

\* The extensions an upload response may name.
KnownExtensions == {"png", "jpg", "jpeg", "webp", "gif", "pdf"}

\* C20: no registry entry comes from an upload response with size 0, an
\* unknown extension or a missing id.
C20_DisqualifiedNotRegistered ==
    \A i \in 1..Len(uploadResults) :
        /\ uploadResults[i].size # 0
        /\ uploadResults[i].extension \in KnownExtensions
        /\ uploadResults[i].id # NoId

\* C21: readModel(fileId).pending is true exactly when some call of fileId
\* has been issued and has not settled; the settling of one call does not
\* clear the flag while another call of the same fileId is unresolved.
C21_PendingAccuracy ==
    \A f \in FileIds : readModel(f).pending <=> inflight[f] > 0

\* C22: no two records of the history have the same id, whether the id is
\* the workflow_run_id of the service, workflow_<ms> or failed_<ms>, also
\* when two calls settle at the same clock value.
C22_UniqueRecordIds ==
    \A i \in 1..Len(workflowResults) : \A j \in 1..Len(workflowResults) :
        i # j => workflowResults[i].id # workflowResults[j].id

\* C23: when executeWorkflow is called only by the buttons of the action
\* cell, no fileId has more than one call in flight, a fileId with an
\* unresolved call shows the disabled spinner instead of a button, and every
\* call is issued for a fileId that is not pending, has no call in flight
\* and shows the run or retry button.
C23_GatedNoRetrigger ==
    /\ [](\A f \in FileIds :
            /\ inflight[f] <= 1
            /\ inflight[f] > 0 => ActionCell(f) = "spinner")
    /\ [][\A f \in FileIds :
             inflight'[f] > inflight[f]
                => /\ ~readModel(f).pending
                   /\ inflight[f] = 0
                   /\ ActionCell(f) \in {"retry", "run"}
         ]_vars

\* The retry button of a failed file was clicked: its second call is in
\* flight and its cell shows the spinner.
C23_Witness ==
    \E f \in FileIds :
        /\ ActionCell(f) = "spinner"
        /\ inflight[f] = 1
        /\ Len(RecordsOf(workflowResults, f)) = 1
        /\ getWorkflowResultForFile(f).status = "failed"

\* The calls of fileId that have settled without their record being in the
\* history yet.
AwaitingRecord(fileId) ==
    IF settling.at = "catch" /\ settling.file_id = fileId THEN 1 ELSE 0

\* C24: the pending flag of a fileId is cleared only by the finally block
\* of one of its calls, which runs in a state whose newest record is the
\* terminal record of that call, appended by an earlier step; so a fileId
\* that is not pending and has no record has no call in flight or settling,
\* and every issued call is in flight, settling or has its record.
C24_RecordBeforeFlagCleared ==
    /\ [](\A f \in FileIds :
            /\ (settling.at = "finally" /\ settling.file_id = f)
                   => /\ workflowResults # <<>>
                      /\ Head(workflowResults).file_id = f
                      /\ Head(workflowResults).status \in {"completed", "failed"}
            /\ (~readModel(f).pending /\ readModel(f).latest = UNDEFINED)
                   => /\ inflight[f] = 0
                      /\ settling.at = "idle" \/ settling.file_id # f)
    /\ [](fetchCount = Len(workflowResults) + inflight["f1"] + inflight["f2"]
                          + AwaitingRecord("f1") + AwaitingRecord("f2"))
    /\ [][\A f \in FileIds :
             /\ (f \in executingWorkflows /\ f \notin executingWorkflows')
                   => /\ settling.at = "finally" /\ settling.file_id = f
                      /\ workflowResults' = workflowResults
             /\ (settling'.at = "finally" /\ settling.at # "finally"
                     /\ settling'.file_id = f)
                   => /\ AppendsOne
                      /\ (f \in executingWorkflows') = (f \in executingWorkflows)
         ]_vars

\* A failed call of a file that was idle is between its catch block and
\* its finally block: its record is in the history and the file is still
\* pending.
C24_Witness ==
    \E f \in FileIds :
        /\ settling.at = "finally" /\ settling.file_id = f
        /\ readModel(f).pending
        /\ readModel(f).latest # UNDEFINED
        /\ readModel(f).latest.status = "failed"
        /\ Len(workflowResults) = 1
        /\ fetchCount = 1

\* C25: the uploading flag is true exactly when at least one upload call is
\* unresolved, also when a second upload is started by a drop while the
\* first is in flight.
C25_UploadingFlag == uploading <=> uploadInflight > 0

====
